---- MODULE Spec2Model ----
(***************************************************************************)
(* Model of analyze_netflix_data (src/main.py): load a CSV, clean it      *)
(* (deduplicate, impute, parse dates, drop, derive), persist the cleaned  *)
(* table and render eight plots.                                          *)
(*                                                                         *)
(* Text is modelled as a sequence of one-character strings, so that        *)
(* strip, strptime, str.replace, int() and the CSV formatting are          *)
(* computed rather than assumed.                                           *)
(***************************************************************************)
EXTENDS Integers, Sequences, FiniteSets, TLC

VARIABLES
    src,                \* the input file: [status, rows]; rows are records of field text
    data,               \* the DataFrame `data`: [dtype, rows]
    duplicates_before,  \* main.py:25
    out,                \* lines printed so far
    cleaned,            \* netflix_cleaned.csv: [exists, cols, rows]
    artifacts,          \* plot files saved so far, in order
    pc,                 \* position in analyze_netflix_data
    exc                 \* the exception that ended the run, or "none"

vars == <<src, data, duplicates_before, out, cleaned, artifacts, pc, exc>>

----------------------------------------------------------------------------
(* Bounds of the model *)

MaxRows == 2

----------------------------------------------------------------------------
(* Text *)

Digits == {"0", "1", "2", "3", "4", "5", "6", "7", "8", "9"}
DigitChars == <<"0", "1", "2", "3", "4", "5", "6", "7", "8", "9">>
Whitespace == {" ", "\t", "\n"}

DigitVal(c) == (CHOOSE i \in 1..10 : DigitChars[i] = c) - 1

AllDigits(s) == Len(s) > 0 /\ \A i \in 1..Len(s) : s[i] \in Digits

RECURSIVE DecVal(_)
DecVal(s) ==
    IF Len(s) = 0 THEN 0
    ELSE 10 * DecVal(SubSeq(s, 1, Len(s) - 1)) + DigitVal(s[Len(s)])

RECURSIVE DecText(_)
DecText(n) ==
    IF n < 10 THEN <<DigitChars[n + 1]>>
    ELSE DecText(n \div 10) \o <<DigitChars[(n % 10) + 1]>>

Pad2(n) == IF n < 10 THEN <<"0">> \o DecText(n) ELSE DecText(n)

RECURSIVE Pad4(_)
Pad4(s) == IF Len(s) >= 4 THEN s ELSE Pad4(<<"0">> \o s)

RECURSIVE LStrip(_)
LStrip(s) ==
    IF Len(s) > 0 /\ s[1] \in Whitespace THEN LStrip(Tail(s)) ELSE s

RECURSIVE RStrip(_)
RStrip(s) ==
    IF Len(s) > 0 /\ s[Len(s)] \in Whitespace
    THEN RStrip(SubSeq(s, 1, Len(s) - 1)) ELSE s

\* str.strip()
Strip(s) == RStrip(LStrip(s))

StartsWith(s, p) == Len(s) >= Len(p) /\ SubSeq(s, 1, Len(p)) = p

\* str.replace(pat, ''): every non-overlapping occurrence, left to right
RECURSIVE Remove(_, _)
Remove(s, pat) ==
    IF Len(s) = 0 THEN s
    ELSE IF StartsWith(s, pat) THEN Remove(SubSeq(s, Len(pat) + 1, Len(s)), pat)
    ELSE <<s[1]>> \o Remove(Tail(s), pat)

\* positions of character c in s
Positions(s, c) == {i \in 1..Len(s) : s[i] = c}

----------------------------------------------------------------------------
(* Cells of a DataFrame *)

NaN == [k |-> "nan"]                       \* missing value of an object / float column
NaT == [k |-> "nat"]                       \* missing value of a datetime column
Str(s) == [k |-> "str", s |-> s]
Num(n) == [k |-> "num", n |-> n]
Date(y, m, d) == [k |-> "date", y |-> y, m |-> m, d |-> d]

IsNull(c) == c.k \in {"nan", "nat"}

\* Text used by the program
Unknown == <<"U", "n", "k", "n", "o", "w", "n">>
NotGiven == <<"N", "o", "t", " ", "G", "i", "v", "e", "n">>
Movie == <<"M", "o", "v", "i", "e">>
TVShow == <<"T", "V", " ", "S", "h", "o", "w">>
MinLabel == <<" ", "m", "i", "n">>
SeasonLabel == <<" ", "S", "e", "a", "s", "o", "n">>
SeasonsLabel == SeasonLabel \o <<"s">>

\* Columns of the input, in file order, and the two derived columns
Cols == <<"title", "director", "country", "date_added", "type", "duration",
          "rating", "listed_in">>
ColSet == {Cols[i] : i \in 1..Len(Cols)}
DerivedCols == <<"year_added", "month_added">>
AllCols == Cols \o DerivedCols
AllColSet == {AllCols[i] : i \in 1..Len(AllCols)}

----------------------------------------------------------------------------
(* pd.read_csv(file_name, na_values=['Not Given']) *)

\* read_csv's default missing-value tokens (the ones short enough to matter
\* here), to which na_values adds 'Not Given'
DefaultNa == { <<>>, <<"N", "A">>, <<"N", "a", "N">>, <<"n", "a", "n">>,
               <<"N", "/", "A">>, <<"n", "u", "l", "l">>, <<"N", "U", "L", "L">>,
               <<"N", "o", "n", "e">> }
NaValues == DefaultNa \cup {NotGiven}

IsNa(t) == t \in NaValues

IsIntText(t) == AllDigits(t)

IsFloatText(t) ==
    /\ Cardinality(Positions(t, ".")) = 1
    /\ LET p == CHOOSE i \in Positions(t, ".") : TRUE
       IN  /\ AllDigits(SubSeq(t, 1, p - 1))
           /\ AllDigits(SubSeq(t, p + 1, Len(t)))

IsNumText(t) == IsIntText(t) \/ IsFloatText(t)

\* integer part of a numeric field (the model only writes fractions of .0)
NumVal(t) ==
    IF IsIntText(t) THEN DecVal(t)
    ELSE DecVal(SubSeq(t, 1, (CHOOSE i \in Positions(t, ".") : TRUE) - 1))

\* dtype read_csv infers for column c of the parsed rows
InferDtype(rows, c) ==
    LET present == {i \in 1..Len(rows) : ~IsNa(rows[i][c])}
    IN  IF Len(rows) = 0 THEN "object"
        ELSE IF \E i \in present : ~IsNumText(rows[i][c]) THEN "object"
        ELSE IF present = 1..Len(rows) /\ \A i \in present : IsIntText(rows[i][c])
             THEN "int64"
        ELSE "float64"

ReadCell(t, dt) ==
    IF IsNa(t) THEN NaN
    ELSE IF dt = "object" THEN Str(t)
    ELSE Num(NumVal(t))

\* the DataFrame read from a file with columns cs and rows of field text
ReadCsv(cs, rows) ==
    LET dts == [c \in cs |-> InferDtype(rows, c)]
    IN  [dtype |-> dts,
         rows  |-> [i \in 1..Len(rows) |->
                      [c \in cs |-> ReadCell(rows[i][c], dts[c])]]]

----------------------------------------------------------------------------
(* data.to_csv(cleaned_file_name, index=False) *)

IsoText(c) ==
    Pad4(DecText(c.y)) \o <<"-">> \o Pad2(c.m) \o <<"-">> \o Pad2(c.d)

\* to_csv(..., na_rep='Unknown')
WriteCellNaRep(c, dt) ==
    IF IsNull(c) THEN <<"U", "n", "k", "n", "o", "w", "n">>
    ELSE IF c.k = "str" THEN c.s
    ELSE IF c.k = "date" THEN IsoText(c)
    ELSE IF dt = "float64" THEN DecText(c.n) \o <<".", "0">>
    ELSE DecText(c.n)

WriteCell(c, dt) ==
    IF IsNull(c) THEN <<>>
    ELSE IF c.k = "str" THEN c.s
    ELSE IF c.k = "date" THEN IsoText(c)
    ELSE IF dt = "float64" THEN DecText(c.n) \o <<".", "0">>
    ELSE DecText(c.n)

\* the file written for DataFrame df: its columns and one row of text per record
WriteCsv(df) ==
    [exists |-> TRUE,
     cols   |-> DOMAIN df.dtype,
     rows   |-> [i \in 1..Len(df.rows) |->
                   [c \in DOMAIN df.dtype |-> WriteCell(df.rows[i][c], df.dtype[c])]]]

----------------------------------------------------------------------------
(* pd.to_datetime(..., format='%m/%d/%Y', errors='coerce') *)

IsLeap(y) == (y % 4 = 0 /\ y % 100 # 0) \/ y % 400 = 0

DaysInMonth(y, m) ==
    IF m = 2 THEN (IF IsLeap(y) THEN 29 ELSE 28)
    ELSE IF m \in {4, 6, 9, 11} THEN 30 ELSE 31

\* %m : 1[0-2]|0[1-9]|[1-9]
MonthField(t) == Len(t) \in {1, 2} /\ AllDigits(t) /\ DecVal(t) \in 1..12

\* %d : 3[0-1]|[1-2]\d|0[1-9]|[1-9]| [1-9]
DayField(t) ==
    \/ Len(t) \in {1, 2} /\ AllDigits(t) /\ DecVal(t) \in 1..31
    \/ Len(t) = 2 /\ t[1] = " " /\ t[2] \in Digits \ {"0"}

\* %Y : \d\d\d\d
YearField(t) == Len(t) = 4 /\ AllDigits(t)

\* strptime of text t against %m/%d/%Y; NaT when the text does not match the
\* whole format or names no calendar date (errors='coerce')
ParseDate(t) ==
    LET sl == Positions(t, "/")
    IN  IF Cardinality(sl) # 2 THEN NaT
        ELSE LET p1 == CHOOSE i \in sl : \A j \in sl : i <= j
                 p2 == CHOOSE i \in sl : \A j \in sl : i >= j
                 mt == SubSeq(t, 1, p1 - 1)
                 dt == SubSeq(t, p1 + 1, p2 - 1)
                 yt == SubSeq(t, p2 + 1, Len(t))
             IN  IF ~(MonthField(mt) /\ DayField(dt) /\ YearField(yt)) THEN NaT
                 ELSE LET y == DecVal(yt)
                          m == DecVal(mt)
                          d == DecVal(LStrip(dt))
                      IN  IF y >= 1 /\ d <= DaysInMonth(y, m)
                          THEN Date(y, m, d) ELSE NaT

\* to_datetime of one cell of the column
ToDatetime(c) == IF c.k = "str" THEN ParseDate(c.s) ELSE NaT

----------------------------------------------------------------------------
(* DataFrame operations used by the cleaning stage *)

\* data.duplicated(subset=['title']): TRUE for every row whose title equals
\* the title of an earlier row (missing titles compare equal to each other)
Duplicated(rows) ==
    [i \in 1..Len(rows) |-> \E j \in 1..(i - 1) : rows[j].title = rows[i].title]

CountTrue(mask) == Cardinality({i \in DOMAIN mask : mask[i]})

\* boolean indexing: the rows whose mask is TRUE, in order
RECURSIVE Select(_, _)
Select(rows, mask) ==
    IF Len(rows) = 0 THEN <<>>
    ELSE LET n    == Len(rows)
             rest == Select(SubSeq(rows, 1, n - 1), [i \in 1..(n - 1) |-> mask[i]])
         IN  IF mask[n] THEN Append(rest, rows[n]) ELSE rest

\* keep='last' in place of keep='first'
DropDuplicatesLast(rows) ==
    Select(rows, [i \in 1..Len(rows) |->
                    ~\E j \in (i + 1)..Len(rows) : rows[j].title = rows[i].title])

\* data.drop_duplicates(subset=['title'], keep='first')
DropDuplicates(rows) ==
    Select(rows, [i \in 1..Len(rows) |-> ~Duplicated(rows)[i]])

\* the rows with column c replaced by the cells vals
SetCol(rows, c, vals) ==
    [i \in 1..Len(rows) |-> [rows[i] EXCEPT ![c] = vals[i]]]

\* fillna whose result is not assigned back
FillCellUnassigned(c) == c

FillCell(c) == IF IsNull(c) THEN Str(Unknown) ELSE c

\* data[c] = data[c].fillna('Unknown'): a numeric column that held a missing
\* value becomes an object column
FillNa(df, c) ==
    [dtype |-> [df.dtype EXCEPT ![c] =
                   IF \E i \in 1..Len(df.rows) : IsNull(df.rows[i][c])
                   THEN "object" ELSE @],
     rows  |-> SetCol(df.rows, c,
                      [i \in 1..Len(df.rows) |-> FillCell(df.rows[i][c])])]

\* the .str accessor is only available on a column of strings
HasStr(df, c) == df.dtype[c] = "object"

StripCell(c) == IF c.k = "str" THEN Str(Strip(c.s)) ELSE c

\* data.dropna(subset=['date_added'])
DropNa(rows) ==
    Select(rows, [i \in 1..Len(rows) |-> ~IsNull(rows[i].date_added)])

\* data[c] = vals, a new column of integers
AddCol(df, c, vals) ==
    [dtype |-> [x \in DOMAIN df.dtype \cup {c} |->
                   IF x = c THEN "int64" ELSE df.dtype[x]],
     rows  |-> [i \in 1..Len(df.rows) |->
                  [x \in DOMAIN df.dtype \cup {c} |->
                     IF x = c THEN vals[i] ELSE df.rows[i][x]]]]

\* .dt.year.astype(int) and .dt.month.astype(int)
YearOf(c) == Num(c.y)

\* .dt.day in place of .dt.month
MonthOfDay(c) == Num(c.d)

MonthOf(c) == Num(c.m)

\* the rows with an unparseable date dropped before the duplicates are
DedupAfterDrop(df) ==
    [df EXCEPT !.rows =
        DropDuplicates(Select(df.rows,
            [i \in 1..Len(df.rows) |->
                ~IsNull(ToDatetime(StripCell(df.rows[i].date_added)))]))]

\* main.py:26-27
DedupStep(df) == [df EXCEPT !.rows = DropDuplicates(df.rows)]

\* main.py:31-32
ImputeStep(df) == FillNa(FillNa(df, "director"), "country")

\* main.py:36-37, once the .str accessor was granted
DatesStep(df) ==
    [dtype |-> [df.dtype EXCEPT !["date_added"] = "datetime64"],
     rows  |-> SetCol(df.rows, "date_added",
                      [i \in 1..Len(df.rows) |->
                         ToDatetime(StripCell(df.rows[i].date_added))])]

\* main.py:40
DropStep(df) == [df EXCEPT !.rows = DropNa(df.rows)]

\* main.py:43-44
DeriveStep(df) ==
    LET n == Len(df.rows)
        y == AddCol(df, "year_added", [i \in 1..n |-> YearOf(df.rows[i].date_added)])
    IN  AddCol(y, "month_added", [i \in 1..n |-> MonthOf(y.rows[i].date_added)])

\* main.py:25-44 on a loaded DataFrame: the cleaned DataFrame, or the exception
Clean(df) ==
    LET d == ImputeStep(DedupStep(df))
    IN  IF ~HasStr(d, "date_added") THEN [raised |-> TRUE, df |-> d]
        ELSE [raised |-> FALSE, df |-> DeriveStep(DropStep(DatesStep(d)))]

----------------------------------------------------------------------------
(* Duration parsing of the rendering stage *)

\* int(s) of a Python string: surrounding whitespace and a sign are accepted
IntOk(s) ==
    LET u == Strip(s)
        b == IF Len(u) > 0 /\ u[1] \in {"+", "-"} THEN Tail(u) ELSE u
    IN  AllDigits(b)

IntVal(s) ==
    LET u == Strip(s)
    IN  IF u[1] = "-" THEN 0 - DecVal(Tail(u))
        ELSE IF u[1] = "+" THEN DecVal(Tail(u))
        ELSE DecVal(u)

\* .str.replace(' min', '')
MovieText(c) == IF c.k = "str" THEN Str(Remove(c.s, MinLabel)) ELSE c

\* .str.replace(' Seasons', '').str.replace(' Season', '')
SeasonText(c) ==
    IF c.k = "str" THEN Str(Remove(Remove(c.s, SeasonsLabel), SeasonLabel)) ELSE c

\* .astype(int) of one cell of an object column succeeds
AsIntOk(c) == c.k = "str" /\ IntOk(c.s)

\* data[data['type'] == t]
OfType(df, t) ==
    Select(df.rows, [i \in 1..Len(df.rows) |-> df.rows[i].type = Str(t)])

MovieDurations(df) ==
    LET m == OfType(df, Movie)
    IN  [i \in 1..Len(m) |-> MovieText(m[i].duration)]

SeasonCounts(df) ==
    LET t == OfType(df, TVShow)
    IN  [i \in 1..Len(t) |-> SeasonText(t[i].duration)]

AllInts(cells) == \A i \in 1..Len(cells) : AsIntOk(cells[i])

----------------------------------------------------------------------------
(* The procedure analyze_netflix_data, one action per step.  The plotting  *)
(* calls (matplotlib, seaborn) are taken to succeed; what can end the run  *)
(* in the rendering stage is the pandas code between them.                 *)

Line(t) == [text |-> t, n |-> 0]
LineN(t, n) == [text |-> t, n |-> n]

NoFrame == [dtype |-> <<>>, rows |-> <<>>]
NoFile == [exists |-> FALSE, cols |-> {}, rows |-> <<>>]

\* an exception nothing catches ends the run
Raise(e) ==
    /\ pc' = "raised"
    /\ exc' = e

Step(next) ==
    /\ pc' = next
    /\ exc' = exc

\* plt.savefig(...) followed by print("Generated plot n: ...")
SavePlot(n) ==
    /\ artifacts' = Append(artifacts, n)
    /\ out' = Append(out, LineN("Generated plot", n))

\* the except branches print and fall through instead of returning
LoadNoReturn ==
    /\ pc = "load"
    /\ data' = ReadCsv(ColSet, src.rows)
    /\ out' = out \o <<Line("Loading data..."),
                       IF src.status = "ok" THEN Line("Data loaded successfully.")
                       ELSE Line("Error: file not found")>>
    /\ Step("dedup")
    /\ UNCHANGED <<src, duplicates_before, cleaned, artifacts>>

\* main.py:9-19
Load ==
    /\ pc = "load"
    /\ IF src.status = "missing"
       THEN /\ out' = out \o <<Line("Loading data..."), Line("Error: file not found")>>
            /\ Step("returned")
            /\ UNCHANGED data
       ELSE IF src.status = "unreadable"
       THEN /\ out' = out \o <<Line("Loading data..."),
                               Line("An error occurred while loading data")>>
            /\ Step("returned")
            /\ UNCHANGED data
       ELSE /\ data' = ReadCsv(ColSet, src.rows)
            /\ out' = out \o <<Line("Loading data..."), Line("Data loaded successfully.")>>
            /\ Step("dedup")
    /\ UNCHANGED <<src, duplicates_before, cleaned, artifacts>>

\* main.py:22-28
Deduplicate ==
    /\ pc = "dedup"
    /\ duplicates_before' = CountTrue(Duplicated(data.rows))
    /\ data' = DedupStep(data)
    /\ out' = out \o <<Line("Cleaning data..."),
                       LineN("Dropped duplicate titles", duplicates_before')>>
    /\ Step("impute")
    /\ UNCHANGED <<src, cleaned, artifacts>>

\* main.py:31-33
Impute ==
    /\ pc = "impute"
    /\ data' = ImputeStep(data)
    /\ out' = Append(out, Line("Filled missing 'director' and 'country'"))
    /\ Step("dates")
    /\ UNCHANGED <<src, duplicates_before, cleaned, artifacts>>

\* main.py:36-37
NormalizeDates ==
    /\ pc = "dates"
    /\ IF ~HasStr(data, "date_added")
       THEN /\ Raise("AttributeError")
            /\ UNCHANGED data
       ELSE /\ data' = DatesStep(data)
            /\ Step("dropna")
    /\ UNCHANGED <<src, duplicates_before, out, cleaned, artifacts>>

\* main.py:40
DropInvalid ==
    /\ pc = "dropna"
    /\ data' = DropStep(data)
    /\ Step("derive")
    /\ UNCHANGED <<src, duplicates_before, out, cleaned, artifacts>>

\* main.py:43-44
Derive ==
    /\ pc = "derive"
    /\ data' = DeriveStep(data)
    /\ Step("persist")
    /\ UNCHANGED <<src, duplicates_before, out, cleaned, artifacts>>

\* main.py:47-49
Persist ==
    /\ pc = "persist"
    /\ cleaned' = WriteCsv(data)
    /\ out' = Append(out, Line("Cleaned data saved"))
    /\ Step("plot1")
    /\ UNCHANGED <<src, data, duplicates_before, artifacts>>

\* main.py:52-65
Plot1 ==
    /\ pc = "plot1"
    /\ artifacts' = Append(artifacts, 1)
    /\ out' = out \o <<Line("Starting analysis and visualization..."),
                       LineN("Generated plot", 1)>>
    /\ Step("plot2")
    /\ UNCHANGED <<src, data, duplicates_before, cleaned>>

\* main.py:68-77
Plot2 ==
    /\ pc = "plot2"
    /\ SavePlot(2)
    /\ Step("plot3")
    /\ UNCHANGED <<src, data, duplicates_before, cleaned>>

\* main.py:80-89
Plot3 ==
    /\ pc = "plot3"
    /\ SavePlot(3)
    /\ Step("plot4")
    /\ UNCHANGED <<src, data, duplicates_before, cleaned>>

\* main.py:92-101
Plot4 ==
    /\ pc = "plot4"
    /\ SavePlot(4)
    /\ Step("plot5")
    /\ UNCHANGED <<src, data, duplicates_before, cleaned>>

\* main.py:104-113
Plot5 ==
    /\ pc = "plot5"
    /\ IF ~HasStr(data, "listed_in")
       THEN /\ Raise("AttributeError")
            /\ UNCHANGED <<artifacts, out>>
       ELSE /\ SavePlot(5)
            /\ Step("plot6")
    /\ UNCHANGED <<src, data, duplicates_before, cleaned>>

\* main.py:116-124
Plot6 ==
    /\ pc = "plot6"
    /\ SavePlot(6)
    /\ Step("plot7")
    /\ UNCHANGED <<src, data, duplicates_before, cleaned>>

\* main.py:127-141
Plot7 ==
    /\ pc = "plot7"
    /\ IF ~HasStr(data, "duration")
       THEN /\ Raise("AttributeError")
            /\ UNCHANGED <<artifacts, out>>
       ELSE IF ~AllInts(MovieDurations(data))
       THEN /\ Raise("ValueError")
            /\ UNCHANGED <<artifacts, out>>
       ELSE /\ SavePlot(7)
            /\ Step("plot8")
    /\ UNCHANGED <<src, data, duplicates_before, cleaned>>

\* main.py:144-152
Plot8 ==
    /\ pc = "plot8"
    /\ IF ~HasStr(data, "duration")
       THEN /\ Raise("AttributeError")
            /\ UNCHANGED <<artifacts, out>>
       ELSE IF ~AllInts(SeasonCounts(data))
       THEN /\ Raise("ValueError")
            /\ UNCHANGED <<artifacts, out>>
       ELSE /\ SavePlot(8)
            /\ Step("banner")
    /\ UNCHANGED <<src, data, duplicates_before, cleaned>>

\* main.py:154
Banner ==
    /\ pc = "banner"
    /\ out' = Append(out, Line("--- Analysis Complete ---"))
    /\ Step("done")
    /\ UNCHANGED <<src, data, duplicates_before, cleaned, artifacts>>

Next ==
    \/ Load
    \/ Deduplicate
    \/ Impute
    \/ NormalizeDates
    \/ DropInvalid
    \/ Derive
    \/ Persist
    \/ Plot1
    \/ Plot2
    \/ Plot3
    \/ Plot4
    \/ Plot5
    \/ Plot6
    \/ Plot7
    \/ Plot8
    \/ Banner

----------------------------------------------------------------------------
(* Inputs *)

ShowA == <<"S", "h", "o", "w", " ", "A">>
ShowB == <<"S", "h", "o", "w", " ", "B">>
JaneDoe == <<"J", "a", "n", "e", " ", "D", "o", "e">>
India == <<"I", "n", "d", "i", "a">>
Dramas == <<"D", "r", "a", "m", "a", "s">>
PG == <<"P", "G">>
Other == <<"C", "l", "i", "p">>

PaddedDate == <<" ", "9", "/", "2", "5", "/", "2", "0", "2", "1", " ">>
PlainDate == <<"1", "2", "/", "1", "/", "2", "0", "1", "9">>
NotADate == <<"n", "o", "t", " ", "a", " ", "d", "a", "t", "e">>
IsoDate == <<"2", "0", "2", "1", "-", "0", "9", "-", "2", "5">>
NoSuchDay == <<"2", "/", "3", "0", "/", "2", "0", "2", "1">>
DigitsDate == <<"2", "0", "2", "1", "0", "9", "2", "5">>

NinetyMin == <<"9", "0">> \o MinLabel
TwoSeasons == <<"2">> \o SeasonsLabel
OneSeason == <<"1">> \o SeasonLabel
Ninety == <<"9", "0">>

DateTexts == {<<>>, PaddedDate, PlainDate, NotADate, IsoDate, NoSuchDay, DigitsDate}

Rec(title, director, country, date, type, duration, listed) ==
    [title |-> title, director |-> director, country |-> country,
     date_added |-> date, type |-> type, duration |-> duration,
     rating |-> PG, listed_in |-> listed]

\* the title of the i-th row of an input without duplicate titles
TitleAt(i) == <<"T", DigitChars[i + 1]>>

\* rows that exercise deduplication and date parsing
DateRows ==
    {Rec(t, d, India, a, Movie, NinetyMin, Dramas) :
        t \in {ShowA, ShowB}, d \in {<<>>, JaneDoe}, a \in DateTexts}

\* rows that exercise imputation
ImputeRows ==
    {Rec(<<>>, d, c, a, Movie, NinetyMin, Dramas) :
        d \in {<<>>, NotGiven, <<"N", "A">>, Unknown, JaneDoe},
        c \in {NotGiven, Unknown, India},
        a \in {<<>>, PlainDate}}

\* rows that exercise the rendering stage
RenderRows ==
    {Rec(<<>>, JaneDoe, India, PlainDate, t, u, g) :
        t \in {Movie, TVShow, Other},
        u \in {NinetyMin, TwoSeasons, OneSeason, Ninety, <<>>},
        g \in {Dramas, <<>>}}

\* rows of a small input, used where the file system is what varies
LoadRows ==
    {Rec(<<>>, JaneDoe, India, a, Movie, u, Dramas) :
        a \in {PlainDate, NotADate}, u \in {NinetyMin, TwoSeasons}}

\* rows that exercise the write and reload of the cleaned file
Agent7 == <<"0", "0", "7">>
PersistRows ==
    {Rec(t, d, India, a, Movie, NinetyMin, Dramas) :
        t \in {ShowA, Agent7, <<>>}, d \in {<<>>, JaneDoe},
        a \in {PaddedDate, PlainDate, NotADate}}

Tables(U) == UNION {[1..n -> U] : n \in 0..MaxRows}

\* the same rows with distinct titles, by position
Titled(rows) == [i \in 1..Len(rows) |-> [rows[i] EXCEPT !.title = TitleAt(i)]]

\* a cleaned file left by an earlier run
StaleFile ==
    [exists |-> TRUE, cols |-> AllColSet,
     rows |-> <<[c \in AllColSet |-> <<"o", "l", "d">>]>>]

InitWith(tables, files) ==
    /\ \/ /\ src \in {[status |-> "ok", rows |-> r] : r \in tables}
       \/ /\ src \in {[status |-> st, rows |-> <<>>] : st \in {"missing", "unreadable"}}
    /\ data = NoFrame
    /\ duplicates_before = 0
    /\ out = <<>>
    /\ cleaned \in files
    /\ artifacts = <<>>
    /\ pc = "load"
    /\ exc = "none"

Init == InitWith(Tables(DateRows), {NoFile})
InitImpute == InitWith({Titled(r) : r \in Tables(ImputeRows)}, {NoFile})
InitRender == InitWith({Titled(r) : r \in Tables(RenderRows)}, {NoFile})
InitLoad == InitWith({Titled(r) : r \in Tables(LoadRows)}, {NoFile, StaleFile})

InitPersist == InitWith(Tables(PersistRows), {NoFile})

Spec == Init /\ [][Next]_vars
SpecPersist == InitPersist /\ [][Next]_vars
SpecImpute == InitImpute /\ [][Next]_vars
SpecRender == InitRender /\ [][Next]_vars
SpecLoad == InitLoad /\ [][Next]_vars

----------------------------------------------------------------------------
(* Vocabulary of the properties *)

\* the record set Load produced from the input
Loaded == ReadCsv(ColSet, src.rows)

\* the cleaning stage has completed: data is the cleaned record set
Cleaned == "month_added" \in DOMAIN data.dtype

\* the first row of rows that carries title t
FirstIdx(rows, t) ==
    CHOOSE i \in 1..Len(rows) :
        rows[i].title = t /\ \A j \in 1..(i - 1) : rows[j].title # t

\* the date a loaded date_added cell parses to, after trimming
Parsed(c) == ToDatetime(StripCell(c))

\* cleaned record c is loaded record r, imputed and with its date parsed
SameRecord(c, r) ==
    /\ c.title = r.title
    /\ c.director = FillCell(r.director)
    /\ c.country = FillCell(r.country)
    /\ c.date_added = Parsed(r.date_added)
    /\ \A x \in {"type", "duration", "rating", "listed_in"} : c[x] = r[x]

Titles(rows) == {rows[i].title : i \in 1..Len(rows)}

----------------------------------------------------------------------------
(* C2: after cleaning no two records share a title, the record kept for a  *)
(* title is the first one of the input carrying it, whatever fields are    *)
(* missing in it, and the reported duplicate count is the number of        *)
(* records Deduplicate discarded.                                          *)
C2_FirstOccurrenceWins ==
    /\ pc = "impute" =>
          /\ duplicates_before = Len(Loaded.rows) - Len(data.rows)
          /\ out[Len(out)] = LineN("Dropped duplicate titles", duplicates_before)
    /\ (src.status = "ok" /\ pc \notin {"load", "dedup"}) =>
          \A i, j \in 1..Len(data.rows) :
              i # j => data.rows[i].title # data.rows[j].title
    /\ Cleaned =>
          \A i \in 1..Len(data.rows) :
              SameRecord(data.rows[i],
                         Loaded.rows[FirstIdx(Loaded.rows, data.rows[i].title)])

\* two rows titled alike, the first without a director, the second with one:
\* the survivor is the first, its director imputed
C2_Witness ==
    /\ Cleaned
    /\ Len(src.rows) = 2
    /\ src.rows[1].title = src.rows[2].title
    /\ src.rows[1].director = <<>>
    /\ src.rows[2].director = JaneDoe
    /\ duplicates_before = 1
    /\ Len(data.rows) = 1
    /\ data.rows[1].director = Str(Unknown)

(* C10: Deduplicate runs before Drop invalid dates, so a title whose first *)
(* occurrence has a missing or unparseable date is absent from the cleaned *)
(* set even when a later duplicate has a valid date; the cleaned set is an *)
(* order-preserving sub-sequence of the input records.                     *)
C10_FirstInvalidDropsTitle ==
    Cleaned =>
        LET L == Loaded.rows
            n == Len(data.rows)
        IN  /\ \A i \in 1..Len(L) :
                   (i = FirstIdx(L, L[i].title) /\ IsNull(Parsed(L[i].date_added)))
                       => L[i].title \notin Titles(data.rows)
            /\ \E f \in [1..n -> 1..Len(L)] :
                   /\ \A k, l \in 1..n : k < l => f[k] < f[l]
                   /\ \A k \in 1..n : SameRecord(data.rows[k], L[f[k]])

\* a title with a valid-date record in the input and none in the cleaned set
C10_Witness ==
    /\ Cleaned
    /\ \E i, j \in 1..Len(Loaded.rows) :
           /\ i < j
           /\ Loaded.rows[i].title = Loaded.rows[j].title
           /\ IsNull(Parsed(Loaded.rows[i].date_added))
           /\ ~IsNull(Parsed(Loaded.rows[j].date_added))
           /\ Loaded.rows[i].title \notin Titles(data.rows)

(* C4: every record of the cleaned set, in memory and in the file written, *)
(* has a date_added, and its year_added and month_added are integers equal *)
(* to the year and month of that date.                                     *)
C4_DerivedMatchDate ==
    /\ Cleaned =>
          /\ data.dtype["year_added"] = "int64"
          /\ data.dtype["month_added"] = "int64"
          /\ \A i \in 1..Len(data.rows) :
                 LET r == data.rows[i]
                 IN  /\ r.date_added.k = "date"
                     /\ r.year_added = Num(r.date_added.y)
                     /\ r.month_added = Num(r.date_added.m)
    /\ cleaned.exists =>
          \A i \in 1..Len(cleaned.rows) :
              LET r == cleaned.rows[i]
                  t == r.date_added
              IN  /\ Len(t) = 10 /\ t[5] = "-" /\ t[8] = "-"
                  /\ IsIntText(r.year_added) /\ IsIntText(r.month_added)
                  /\ DecVal(r.year_added) = DecVal(SubSeq(t, 1, 4))
                  /\ DecVal(r.month_added) = DecVal(SubSeq(t, 6, 7))

\* the record of " 9/25/2021 " as kept and as written
C4_Witness ==
    /\ cleaned.exists
    /\ \E i \in 1..Len(data.rows) :
           /\ data.rows[i].date_added = Date(2021, 9, 25)
           /\ data.rows[i].year_added = Num(2021)
           /\ data.rows[i].month_added = Num(9)
           /\ cleaned.rows[i].year_added = <<"2", "0", "2", "1">>
           /\ cleaned.rows[i].month_added = <<"9">>

(* C8, as claimed: a record that survived deduplication is in the cleaned  *)
(* set exactly when its date_added, trimmed, matches month/day/4-digit     *)
(* year; every other value becomes null without raising and the record is  *)
(* dropped; " 9/25/2021 " is kept as 2021-09-25, year 2021, month 9.       *)
C8_DateKeptIff ==
    LET S == DedupStep(Loaded).rows
    IN  /\ pc = "raised" => Cleaned
        /\ Cleaned =>
              \A i \in 1..Len(S) :
                  /\ S[i].title \in Titles(data.rows) <=> ~IsNull(Parsed(S[i].date_added))
                  /\ S[i].date_added = Str(PaddedDate) =>
                        \E k \in 1..Len(data.rows) :
                            /\ data.rows[k].title = S[i].title
                            /\ data.rows[k].date_added = Date(2021, 9, 25)
                            /\ data.rows[k].year_added = Num(2021)
                            /\ data.rows[k].month_added = Num(9)

(* C6, as claimed: once Load succeeded, steps 2-7 are total: no exception  *)
(* ends the run before the cleaned file is written, also when the record   *)
(* set is empty, when every date_added is missing and when every record is *)
(* dropped.                                                                *)
C6_CleaningIsTotal ==
    (src.status = "ok" /\ pc = "raised") => cleaned.exists

\* the cleaned file read back, restricted to the original columns
ReloadOriginal ==
    ReadCsv(ColSet, [i \in 1..Len(cleaned.rows) |->
                       [c \in ColSet |-> cleaned.rows[i][c]]])

(* C1, as claimed: cleaning the cleaned file again (original columns only) *)
(* yields the record set of the single run.                                *)
C1_Idempotent ==
    cleaned.exists =>
        /\ ~Clean(ReloadOriginal).raised
        /\ Clean(ReloadOriginal).df.rows = data.rows

----------------------------------------------------------------------------
\* the text of column c in the input row a cleaned record comes from
SourceText(r, c) ==
    LET i == CHOOSE i \in 1..Len(src.rows) :
                 /\ ReadCell(src.rows[i].title, "object") = r.title
                 /\ \A j \in 1..(i - 1) : src.rows[j].title # src.rows[i].title
    IN  src.rows[i][c]

(* C3, as claimed: in the cleaned set director and country are never       *)
(* missing, each is "Unknown" only when its source value was missing       *)
(* (empty field or "Not Given"), independently of the other, and a present *)
(* source value is passed through unchanged.                               *)
C3_UnknownOnlyWhenMissing ==
    Cleaned =>
        \A i \in 1..Len(data.rows) : \A c \in {"director", "country"} :
            LET r == data.rows[i]
                t == SourceText(r, c)
            IN  /\ ~IsNull(r[c])
                /\ r[c] = Str(Unknown) => IsNa(t)
                /\ ~IsNa(t) => r[c] = Str(t)

(* C3, amended: in the cleaned set director and country are never missing; *)
(* each is "Unknown" exactly when its source value was missing (an empty   *)
(* field, a missing-value token of the reader or "Not Given") or was the   *)
(* text "Unknown" itself, independently of the other, and a present source *)
(* value is passed through as loaded.                                      *)
C3_UnknownWhenMissingOrLiteral ==
    Cleaned =>
        \A i \in 1..Len(data.rows) : \A c \in {"director", "country"} :
            LET r == data.rows[i]
                t == SourceText(r, c)
            IN  /\ ~IsNull(r[c])
                /\ r[c] = Str(Unknown) <=> (IsNa(t) \/ t = Unknown)
                /\ ~IsNa(t) => r[c] = Str(t)

\* a record whose director was "Not Given" and whose country was present
C3_Witness ==
    /\ Cleaned
    /\ \E i \in 1..Len(data.rows) :
           /\ SourceText(data.rows[i], "director") = NotGiven
           /\ SourceText(data.rows[i], "country") = India
           /\ data.rows[i].director = Str(Unknown)
           /\ data.rows[i].country = Str(India)

----------------------------------------------------------------------------
(* C5: when Load fails, for a missing file or for any other reason, the    *)
(* run prints a message and returns without raising, and nothing further   *)
(* executes: no cleaning step, no write of the cleaned file, no plot, no    *)
(* later progress line and no completion banner.                           *)
C5_LoadFailureStops ==
    /\ [](src.status # "ok" /\ pc # "load" =>
             /\ pc = "returned"
             /\ exc = "none"
             /\ data = NoFrame
             /\ artifacts = <<>>
             /\ Len(out) = 2
             /\ out[1] = Line("Loading data...")
             /\ out[2] \in {Line("Error: file not found"),
                            Line("An error occurred while loading data")})
    /\ [][src.status # "ok" => cleaned' = cleaned /\ artifacts' = artifacts]_vars

\* an unreadable input, the run returned, the earlier cleaned file untouched
C5_Witness ==
    /\ src.status = "unreadable"
    /\ pc = "returned"
    /\ cleaned = StaleFile
    /\ out[2] = Line("An error occurred while loading data")

----------------------------------------------------------------------------
\* the cleaned file read back, all columns
Reload == ReadCsv(cleaned.cols, cleaned.rows)

(* C7, as claimed: writing the cleaned set and reloading the file yields   *)
(* the same record count, the same set of titles and the same year_added   *)
(* and month_added for every record.                                       *)
C7_RoundTrip ==
    cleaned.exists =>
        /\ Len(Reload.rows) = Len(data.rows)
        /\ Titles(Reload.rows) = Titles(data.rows)
        /\ \A i \in 1..Len(data.rows) :
               /\ Reload.rows[i].year_added = data.rows[i].year_added
               /\ Reload.rows[i].month_added = data.rows[i].month_added

(* C7, amended: writing the cleaned set and reloading the file yields the  *)
(* same record count, the same year_added and month_added for every        *)
(* record, and the same title for every record whose title the reload's    *)
(* type inference leaves as text; when every surviving title is numeric    *)
(* text the column is reloaded as numbers ("007" comes back as 7).         *)
C7_RoundTripUpToNumericTitles ==
    cleaned.exists =>
        /\ Len(Reload.rows) = Len(data.rows)
        /\ \A i \in 1..Len(data.rows) :
               LET t == data.rows[i].title
                   b == Reload.rows[i].title
               IN  /\ \/ b = t
                      \/ t.k = "str" /\ IsNumText(t.s) /\ b = Num(NumVal(t.s))
                   /\ Reload.rows[i].year_added = data.rows[i].year_added
                   /\ Reload.rows[i].month_added = data.rows[i].month_added

\* a cleaned set written and reloaded, a missing title and a text title in it
C7_Witness ==
    /\ cleaned.exists
    /\ Len(data.rows) = 2
    /\ Titles(data.rows) = {NaN, Str(ShowA)}
    /\ Titles(Reload.rows) = {NaN, Str(ShowA)}
    /\ Reload.rows[1].year_added = data.rows[1].year_added

----------------------------------------------------------------------------
\* the duration of a record as text
DurationText(c) ==
    IF IsNull(c) THEN <<>> ELSE IF c.k = "str" THEN c.s ELSE DecText(c.n)

\* a Movie whose duration, ' min' removed, is not a number
BadMovie(r) ==
    r.type = Str(Movie) /\ ~IntOk(Remove(DurationText(r.duration), MinLabel))

\* a TV Show whose duration, ' Seasons' / ' Season' removed, is not a number
BadShow(r) ==
    /\ r.type = Str(TVShow)
    /\ ~IntOk(Remove(Remove(DurationText(r.duration), SeasonsLabel), SeasonLabel))

(* C9, as claimed: "<N> min" of a Movie and "<N> Season(s)" of a TV Show   *)
(* parse to N; a duration whose remainder is not numeric raises and aborts *)
(* the rendering, which can only happen after the cleaned file was written *)
(* and plots 1-6 were generated in order; a bad Movie duration prevents    *)
(* plots 7 and 8, a bad TV Show duration prevents plot 8 only, and in both *)
(* cases no completion banner is printed; records of another type are      *)
(* never duration-parsed.                                                  *)
C9_DurationErrorOrdering ==
    LET rows  == data.rows
        badM  == \E i \in 1..Len(rows) : BadMovie(rows[i])
        badS  == \E i \in 1..Len(rows) : BadShow(rows[i])
        plots(n) == [i \in 1..n |-> i]
        banner == \E i \in 1..Len(out) : out[i] = Line("--- Analysis Complete ---")
    IN  /\ \A i \in 1..Len(rows) :
               /\ (rows[i].type = Str(Movie) /\ rows[i].duration = Str(NinetyMin))
                     => /\ AsIntOk(MovieText(rows[i].duration))
                        /\ IntVal(MovieText(rows[i].duration).s) = 90
               /\ (rows[i].type = Str(TVShow) /\ rows[i].duration = Str(TwoSeasons))
                     => /\ AsIntOk(SeasonText(rows[i].duration))
                        /\ IntVal(SeasonText(rows[i].duration).s) = 2
               /\ (rows[i].type = Str(TVShow) /\ rows[i].duration = Str(OneSeason))
                     => /\ AsIntOk(SeasonText(rows[i].duration))
                        /\ IntVal(SeasonText(rows[i].duration).s) = 1
        /\ (pc \in {"raised", "done"} /\ Len(artifacts) >= 6) =>
               /\ cleaned.exists
               /\ badM => pc = "raised" /\ artifacts = plots(6) /\ ~banner
               /\ (~badM /\ badS) => pc = "raised" /\ artifacts = plots(7) /\ ~banner
               /\ (~badM /\ ~badS) => pc = "done" /\ artifacts = plots(8) /\ banner

====
